---- MODULE Spec2Model ----
(***************************************************************************)
(* Model of the playing-cards library (src/src/lib.rs): the Suit, Rank and *)
(* Color enumerations and their Display tables, the Card sum type, the     *)
(* IterCards iterator and the Deck vector wrapper.                         *)
(*                                                                         *)
(* Indices are 0-based as in the Rust source; TLA+ sequences are 1-based,  *)
(* so an array access a[i] of the source is written a[i + 1].              *)
(* Strings produced by Display are sequences of one-character strings.     *)
(***************************************************************************)
EXTENDS Integers, Sequences, FiniteSets, TLC

VARIABLES
    it,         \* the IterCards value: [rank, suit, jokers]
    yielded,    \* cards returned by next() since the iterator was made
    nones,      \* number of next() calls that returned None since then
    cards,      \* Deck.cards of the deck under test (self)
    other,      \* Deck.cards of a second deck, the argument of append
    op,         \* name of the last operation performed
    arg,        \* argument of the last put (Option<Card>)
    ret,        \* value returned by the last operation (Option<Card>)
    prev,       \* self.cards before the last operation
    prevOther,  \* other.cards before the last append, else <<>>
    lastDraw,   \* if the operation before the last one was a draw: the deck
                \* before that draw and what it returned
    card,       \* a Card value the pure methods are applied to
    shown,      \* result of format!("{}", card), <<>> before the call
    rk          \* result of card.rank(), "" before the call

vars == <<it, yielded, nones, cards, other, op, arg, ret, prev, prevOther,
          lastDraw, card, shown, rk>>

iterVars == <<it, yielded, nones>>
deckVars == <<cards, other, op, arg, ret, prev, prevOther, lastDraw>>
cardVars == <<card, shown, rk>>

(***************************************************************************)
(* Bounds of the model.                                                    *)
(***************************************************************************)
\* Every operation but draw is explored on decks of at most MaxLen cards
\* (standard and full build their 52 and 54 cards whatever the bound).
MaxLen == 3
\* from_inner builds argument decks of at most MaxOther cards.
MaxOther == 2
\* next() is called at most MaxNones times after the iterator is exhausted.
MaxNones == 2

(***************************************************************************)
(* Enumerations, in declaration order, and the constant tables.            *)
(***************************************************************************)
Suit == <<"Clubs", "Diamonds", "Hearts", "Spades">>

SUITS == <<"Clubs", "Diamonds", "Hearts", "Spades">>

SUIT_NAMES == <<"C", "D", "H", "S">>

Rank == <<"Two", "Three", "Four", "Five", "Six", "Seven", "Eight", "Nine",
          "Ten", "Jack", "Queen", "King", "Ace", "Joker">>

RANKS == <<"Two", "Three", "Four", "Five", "Six", "Seven", "Eight", "Nine",
           "Ten", "Jack", "Queen", "King", "Ace", "Joker">>

\* RANK_NAMES without the entry for Ten.
RANK_NAMES_noTen == <<"J", "Q", "K", "A", "?">>

RANK_NAMES == <<"T", "J", "Q", "K", "A", "?">>

Color == <<"Black", "Red">>

\* COLORS with its two entries exchanged.
COLORS_exchanged == <<"Red", "Black">>

COLORS == <<"Black", "Red">>

COLOR_NAMES == <<"R", "B">>

\* `v as usize`: the discriminant of v in its enumeration.
AsUsize(enum, v) == (CHOOSE i \in 1..Len(enum) : enum[i] = v) - 1

Range(s) == {s[i] : i \in DOMAIN s}

(***************************************************************************)
(* Option<T> and Card.                                                     *)
(***************************************************************************)
None == [tag |-> "None"]

Some(v) == [tag |-> "Some", val |-> v]

SuitCard(s, r) == [tag |-> "SuitCard", suit |-> s, rank |-> r]

JokerCard(c) == [tag |-> "JokerCard", color |-> c]

\* Every value of type Card.
Card == {SuitCard(s, r) : s \in Range(Suit), r \in Range(Rank)}
            \cup {JokerCard(c) : c \in Range(Color)}

(***************************************************************************)
(* Display.                                                                *)
(***************************************************************************)
DIGITS == <<"0", "1", "2", "3", "4", "5", "6", "7", "8", "9">>

\* write!(f, "{}", n) for n: usize
RECURSIVE Decimal(_)
Decimal(n) ==
    IF n < 10 THEN <<DIGITS[n + 1]>>
    ELSE Decimal(n \div 10) \o <<DIGITS[(n % 10) + 1]>>

SuitFmt(self) == <<SUIT_NAMES[AsUsize(Suit, self) + 1]>>

RankFmt(self) ==
    LET names_start == Len(RANKS) - Len(RANK_NAMES)
    IN  IF AsUsize(Rank, self) >= names_start
        THEN <<RANK_NAMES[AsUsize(Rank, self) - names_start + 1]>>
        ELSE Decimal(2 + AsUsize(Rank, self))

ColorFmt(self) == <<COLOR_NAMES[AsUsize(Color, self) + 1]>>

CardFmt(self) ==
    IF self.tag = "SuitCard"
    THEN RankFmt(self.rank) \o SuitFmt(self.suit)
    ELSE ColorFmt(self.color) \o RankFmt("Joker")

ColorFrom(s) ==
    CASE s = "Clubs" -> "Black"
      [] s = "Diamonds" -> "Red"
      [] s = "Hearts" -> "Red"
      [] s = "Spades" -> "Black"

(***************************************************************************)
(* Card methods.                                                           *)
(***************************************************************************)
\* rank() returning the highest standard rank for a joker.
rankJokerAsAce(self) ==
    IF self.tag = "JokerCard" THEN "Ace" ELSE self.rank

rank(self) ==
    IF self.tag = "JokerCard" THEN "Joker" ELSE self.rank

suit(self) ==
    IF self.tag = "JokerCard" THEN None ELSE Some(self.suit)

color(self) ==
    IF self.tag = "JokerCard" THEN self.color ELSE ColorFrom(self.suit)

\* The derived Ord on Rank: declaration order.
RankLt(a, b) == AsUsize(Rank, a) < AsUsize(Rank, b)

(***************************************************************************)
(* IterCards.                                                              *)
(***************************************************************************)
IterCardsStandard == [rank |-> 0, suit |-> 0, jokers |-> FALSE]

IterCardsFull == [rank |-> 0, suit |-> 0, jokers |-> TRUE]

\* next() taking the row of King for the row of the jokers.
IterNextStopsEarly(self) ==
    IF self.rank >= Len(RANKS)
    THEN [it |-> self, ret |-> None]
    ELSE IF self.rank = Len(RANKS) - 2
    THEN IF ~self.jokers \/ self.suit >= Len(COLORS)
         THEN [it |-> self, ret |-> None]
         ELSE [it  |-> [self EXCEPT !.suit = @ + 1],
               ret |-> Some(JokerCard(COLORS[self.suit + 1]))]
    ELSE LET result == SuitCard(SUITS[self.suit + 1], RANKS[self.rank + 1])
         IN  IF self.suit + 1 >= Len(SUITS)
             THEN [it  |-> [self EXCEPT !.suit = 0, !.rank = @ + 1],
                   ret |-> Some(result)]
             ELSE [it  |-> [self EXCEPT !.suit = @ + 1],
                   ret |-> Some(result)]

\* next() starting over from the first card once it has returned None.
IterNextWraps(self) ==
    IF self.rank >= Len(RANKS)
    THEN [it |-> self, ret |-> None]
    ELSE IF self.rank = Len(RANKS) - 1
    THEN IF ~self.jokers \/ self.suit >= Len(COLORS)
         THEN [it |-> [self EXCEPT !.suit = 0, !.rank = 0], ret |-> None]
         ELSE [it  |-> [self EXCEPT !.suit = @ + 1],
               ret |-> Some(JokerCard(COLORS[self.suit + 1]))]
    ELSE LET result == SuitCard(SUITS[self.suit + 1], RANKS[self.rank + 1])
         IN  IF self.suit + 1 >= Len(SUITS)
             THEN [it  |-> [self EXCEPT !.suit = 0, !.rank = @ + 1],
                   ret |-> Some(result)]
             ELSE [it  |-> [self EXCEPT !.suit = @ + 1],
                   ret |-> Some(result)]

\* Iterator::next for IterCards: the iterator afterwards and the item.
IterNext(self) ==
    IF self.rank >= Len(RANKS)
    THEN [it |-> self, ret |-> None]
    ELSE IF self.rank = Len(RANKS) - 1
    THEN IF ~self.jokers \/ self.suit >= Len(COLORS)
         THEN [it |-> self, ret |-> None]
         ELSE [it  |-> [self EXCEPT !.suit = @ + 1],
               ret |-> Some(JokerCard(COLORS[self.suit + 1]))]
    ELSE LET result == SuitCard(SUITS[self.suit + 1], RANKS[self.rank + 1])
         IN  IF self.suit + 1 >= Len(SUITS)
             THEN [it  |-> [self EXCEPT !.suit = 0, !.rank = @ + 1],
                   ret |-> Some(result)]
             ELSE [it  |-> [self EXCEPT !.suit = @ + 1],
                   ret |-> Some(result)]

\* Iterator::collect into a Vec: call next() until it returns None.
RECURSIVE Collect(_)
Collect(self) ==
    LET r == IterNext(self)
    IN  IF r.ret = None THEN <<>> ELSE <<r.ret.val>> \o Collect(r.it)

iter_standard == IterCardsStandard

iter_full == IterCardsFull

(***************************************************************************)
(* Deck: a wrapper of Vec<Card>.                                           *)
(***************************************************************************)
\* pop() taking the first element instead of the last.
VecPopFront(v) ==
    IF Len(v) = 0
    THEN [cards |-> v, ret |-> None]
    ELSE [cards |-> SubSeq(v, 2, Len(v)), ret |-> Some(v[1])]

\* Vec::pop: the vector afterwards and the value returned.
VecPop(v) ==
    IF Len(v) = 0
    THEN [cards |-> v, ret |-> None]
    ELSE [cards |-> SubSeq(v, 1, Len(v) - 1), ret |-> Some(v[Len(v)])]

\* push() inserting at the other end.
VecPushFront(v, c) == <<c>> \o v

\* Vec::push
VecPush(v, c) == v \o <<c>>

\* extend() fed by popping o: its items arrive last first.
VecExtendPopped(v, o) == v \o [i \in 1..Len(o) |-> o[Len(o) + 1 - i]]

\* Vec::extend(other.into_iter()): the items of o in order, after those of v.
VecExtend(v, o) == v \o o

\* <[T]>::reverse
VecReverse(v) == [i \in 1..Len(v) |-> v[Len(v) + 1 - i]]

\* <[T]>::swap(i, j), 0-based
VecSwap(v, i, j) == [v EXCEPT ![i + 1] = v[j + 1], ![j + 1] = v[i + 1]]

\* gen_index called with i instead of i + 1: never the index i itself.
GenIndexBelow(ubound) == 0..(ubound - 2)

\* gen_index(rng, ubound): any index below ubound.
GenIndex(ubound) == 0..(ubound - 1)

\* SliceRandom::shuffle as called by Deck::shuffle:
\*   for i in (1..self.len()).rev() { self.swap(i, gen_index(rng, i + 1)) }
\* vs is the set of vectors the loop can hold before the iteration for i.
RECURSIVE ShuffleLoop(_, _)
ShuffleLoop(vs, i) ==
    IF i < 1 THEN vs
    ELSE ShuffleLoop({VecSwap(v, i, j) : v \in vs, j \in GenIndex(i + 1)},
                     i - 1)

\* Every vector the shuffle of v can produce.
ShuffleOutcomes(v) == ShuffleLoop({v}, Len(v) - 1)

\* Cards handed to put and from_inner by the caller.
PutCards == {SuitCard("Clubs", "Two"), JokerCard("Red")}

SeqsUpTo(S, n) == UNION {[1..k -> S] : k \in 0..n}

NoDraw == [before |-> <<>>, ret |-> None]

\* What the state records of a draw once the next operation has run.
DrawJustBefore ==
    IF op = "draw" THEN [before |-> prev, ret |-> ret] ELSE NoDraw

new ==
    /\ cards' = <<>>
    /\ op' = "new"
    /\ arg' = None
    /\ ret' = None
    /\ prev' = <<>>
    /\ prevOther' = <<>>
    /\ lastDraw' = DrawJustBefore
    /\ UNCHANGED <<other, iterVars, cardVars>>

standard ==
    /\ cards' = Collect(iter_standard)
    /\ op' = "standard"
    /\ arg' = None
    /\ ret' = None
    /\ prev' = <<>>
    /\ prevOther' = <<>>
    /\ lastDraw' = DrawJustBefore
    /\ UNCHANGED <<other, iterVars, cardVars>>

full ==
    /\ cards' = Collect(iter_full)
    /\ op' = "full"
    /\ arg' = None
    /\ ret' = None
    /\ prev' = <<>>
    /\ prevOther' = <<>>
    /\ lastDraw' = DrawJustBefore
    /\ UNCHANGED <<other, iterVars, cardVars>>

\* Deck::from_inner builds the deck that append will consume.
from_inner(v) ==
    /\ Len(cards) <= MaxLen
    /\ other' = v
    /\ op' = "from_inner"
    /\ arg' = None
    /\ ret' = None
    /\ prev' = cards
    /\ prevOther' = <<>>
    /\ lastDraw' = DrawJustBefore
    /\ UNCHANGED <<cards, iterVars, cardVars>>

shuffle ==
    /\ Len(cards) <= MaxLen
    /\ \E v \in ShuffleOutcomes(cards) : cards' = v
    /\ op' = "shuffle"
    /\ arg' = None
    /\ ret' = None
    /\ prev' = cards
    /\ prevOther' = <<>>
    /\ lastDraw' = DrawJustBefore
    /\ UNCHANGED <<other, iterVars, cardVars>>

draw ==
    /\ cards' = VecPop(cards).cards
    /\ ret' = VecPop(cards).ret
    /\ op' = "draw"
    /\ arg' = None
    /\ prev' = cards
    /\ prevOther' = <<>>
    /\ lastDraw' = DrawJustBefore
    /\ UNCHANGED <<other, iterVars, cardVars>>

put(c) ==
    /\ Len(cards) < MaxLen
    /\ cards' = VecPush(cards, c)
    /\ op' = "put"
    /\ arg' = Some(c)
    /\ ret' = None
    /\ prev' = cards
    /\ prevOther' = <<>>
    /\ lastDraw' = DrawJustBefore
    /\ UNCHANGED <<other, iterVars, cardVars>>

\* other is moved into the call: afterwards it holds no cards.
append ==
    /\ Len(cards) + Len(other) <= MaxLen
    /\ cards' = VecExtend(cards, other)
    /\ other' = <<>>
    /\ op' = "append"
    /\ arg' = None
    /\ ret' = None
    /\ prev' = cards
    /\ prevOther' = other
    /\ lastDraw' = DrawJustBefore
    /\ UNCHANGED <<iterVars, cardVars>>

reverse ==
    /\ Len(cards) <= MaxLen
    /\ cards' = VecReverse(cards)
    /\ op' = "reverse"
    /\ arg' = None
    /\ ret' = None
    /\ prev' = cards
    /\ prevOther' = <<>>
    /\ lastDraw' = DrawJustBefore
    /\ UNCHANGED <<other, iterVars, cardVars>>

(***************************************************************************)
(* Steps of a caller of IterCards.                                         *)
(***************************************************************************)
NewIterStandard ==
    /\ it' = IterCardsStandard
    /\ yielded' = <<>>
    /\ nones' = 0
    /\ UNCHANGED <<deckVars, cardVars>>

NewIterFull ==
    /\ it' = IterCardsFull
    /\ yielded' = <<>>
    /\ nones' = 0
    /\ UNCHANGED <<deckVars, cardVars>>

CallNext ==
    /\ nones < MaxNones
    /\ it' = IterNext(it).it
    /\ IF IterNext(it).ret = None
       THEN nones' = nones + 1 /\ yielded' = yielded
       ELSE nones' = nones /\ yielded' = yielded \o <<IterNext(it).ret.val>>
    /\ UNCHANGED <<deckVars, cardVars>>

(***************************************************************************)
(* Steps of a caller of the pure Card methods.                             *)
(***************************************************************************)
CallFmt ==
    /\ shown = <<>>
    /\ shown' = CardFmt(card)
    /\ UNCHANGED <<card, rk, iterVars, deckVars>>

CallRank ==
    /\ rk = ""
    /\ rk' = rank(card)
    /\ UNCHANGED <<card, shown, iterVars, deckVars>>

(***************************************************************************)
(* Specifications.                                                         *)
(***************************************************************************)
InitDeckVars ==
    /\ cards = <<>>
    /\ other = <<>>
    /\ op = "new"
    /\ arg = None
    /\ ret = None
    /\ prev = <<>>
    /\ prevOther = <<>>
    /\ lastDraw = NoDraw

InitIterVars ==
    /\ it = IterCardsStandard
    /\ yielded = <<>>
    /\ nones = 0

Init ==
    /\ InitIterVars
    /\ InitDeckVars
    /\ card = JokerCard("Black")
    /\ shown = <<>>
    /\ rk = ""

InitCard ==
    /\ InitIterVars
    /\ InitDeckVars
    /\ card \in Card
    /\ shown = <<>>
    /\ rk = ""

\* The iterator and the two decks collected from it.
NextIter ==
    \/ NewIterStandard
    \/ NewIterFull
    \/ CallNext
    \/ standard
    \/ full

SpecIter == Init /\ [][NextIter]_vars

\* The deck operations.
NextDeck ==
    \/ new
    \/ standard
    \/ full
    \/ \E v \in SeqsUpTo(PutCards, MaxOther) : from_inner(v)
    \/ shuffle
    \/ draw
    \/ \E c \in PutCards : put(c)
    \/ append
    \/ reverse

SpecDeck == Init /\ [][NextDeck]_vars

\* The pure methods of Card, applied to every value of the type.
NextCard ==
    \/ CallFmt
    \/ CallRank

SpecCard == InitCard /\ [][NextCard]_vars

(***************************************************************************)
(* What the properties below are stated with.                              *)
(***************************************************************************)
\* The thirteen ranks of a standard deck, lowest first.
StandardRanks == <<"Two", "Three", "Four", "Five", "Six", "Seven", "Eight",
                   "Nine", "Ten", "Jack", "Queen", "King", "Ace">>

\* Rank-major, suit-minor: the i-th card has suit (i-1) mod 4 and
\* rank (i-1) div 4.
Expected52 ==
    [i \in 1..52 |-> SuitCard(Suit[((i - 1) % 4) + 1],
                              StandardRanks[((i - 1) \div 4) + 1])]

Expected54 == Expected52 \o <<JokerCard("Black"), JokerCard("Red")>>

IsPrefix(s, t) == Len(s) <= Len(t) /\ s = SubSeq(t, 1, Len(s))

\* How many times each card occurs in s.
BagOf(s) == [c \in Range(s) |-> Cardinality({i \in DOMAIN s : s[i] = c})]

\* Every rearrangement of s.
Perms(s) ==
    {[i \in 1..Len(s) |-> s[f[i]]] : f \in Permutations(1..Len(s))}

SuitGlyph(s) ==
    CASE s = "Clubs" -> "C"
      [] s = "Diamonds" -> "D"
      [] s = "Hearts" -> "H"
      [] s = "Spades" -> "S"

\* Rank glyphs with every numeric rank written as its decimal value.
DecimalRankGlyph(r) ==
    CASE r = "Two" -> <<"2">>
      [] r = "Three" -> <<"3">>
      [] r = "Four" -> <<"4">>
      [] r = "Five" -> <<"5">>
      [] r = "Six" -> <<"6">>
      [] r = "Seven" -> <<"7">>
      [] r = "Eight" -> <<"8">>
      [] r = "Nine" -> <<"9">>
      [] r = "Ten" -> <<"1", "0">>
      [] r = "Jack" -> <<"J">>
      [] r = "Queen" -> <<"Q">>
      [] r = "King" -> <<"K">>
      [] r = "Ace" -> <<"A">>

\* The same glyphs, but Ten written as the letter T.
LetterTenRankGlyph(r) ==
    IF r = "Ten" THEN <<"T">> ELSE DecimalRankGlyph(r)

ColorGlyph(c) == IF c = "Black" THEN "B" ELSE "R"

(***************************************************************************)
(* Properties.                                                             *)
(***************************************************************************)
\* C1: an iterator made by IterCards::standard() yields exactly 52 cards
\* before it returns None: every (suit, rank) pair with a rank in Two..Ace
\* exactly once, never a card of rank Joker, the four suits of Two first
\* (Clubs, Diamonds, Hearts, Spades), then those of Three, ..., then those
\* of Ace; Deck::standard() holds this sequence in this order.
StandardYieldsThe52 ==
    /\ ~it.jokers =>
          /\ IsPrefix(yielded, Expected52)
          /\ (nones > 0 => yielded = Expected52)
          /\ \A i \in DOMAIN yielded :
                /\ yielded[i].tag = "SuitCard"
                /\ yielded[i].rank # "Joker"
          /\ Cardinality(Range(yielded)) = Len(yielded)
          /\ (nones > 0 =>
                Range(yielded) = {SuitCard(s, r) : s \in Range(Suit),
                                                   r \in Range(StandardRanks)})
    /\ op = "standard" => cards = Expected52 /\ Len(cards) = 52

StandardExhausted ==
    /\ ~it.jokers
    /\ nones > 0
    /\ Len(yielded) = 52
    /\ op = "standard"

\* C2: an iterator made by IterCards::full() yields exactly 54 cards before
\* it returns None: the 52 cards of the standard iterator in the same
\* order, then JokerCard(Black), then JokerCard(Red); Deck::full() holds
\* this sequence in this order.
FullYieldsThe54 ==
    /\ it.jokers =>
          /\ IsPrefix(yielded, Expected54)
          /\ (nones > 0 => yielded = Expected54)
    /\ op = "full" => cards = Expected54 /\ Len(cards) = 54

FullExhausted ==
    /\ it.jokers
    /\ nones > 0
    /\ Len(yielded) = 54
    /\ yielded[53] = JokerCard("Black")
    /\ yielded[54] = JokerCard("Red")
    /\ op = "full"

\* C3, as claimed: the two jokers have the same rank, and that rank is
\* strictly greater than the rank of SuitCard(suit, rank) for every suit
\* and every value of Rank the constructor accepts.
JokerRankAboveEverySuitCard ==
    rk # "" =>
        /\ rank(JokerCard("Black")) = rank(JokerCard("Red"))
        /\ card.tag = "JokerCard" => rk = rank(JokerCard("Black"))
        /\ card.tag = "SuitCard" => RankLt(rk, rank(JokerCard("Black")))

\* C3, amended: the two jokers have the same rank; that rank is strictly
\* greater than the rank of SuitCard(suit, rank) for every suit and every
\* rank in Two..Ace, and equal to the rank of SuitCard(suit, Joker), which
\* the constructor accepts as well.
JokerRankAboveStandardRanks ==
    rk # "" =>
        /\ rank(JokerCard("Black")) = rank(JokerCard("Red"))
        /\ card.tag = "JokerCard" => rk = rank(JokerCard("Black"))
        /\ (card.tag = "SuitCard" /\ card.rank # "Joker") =>
              /\ rk = card.rank
              /\ RankLt(rk, rank(JokerCard("Black")))
              /\ RankLt(rk, rank(JokerCard("Red")))
        /\ (card.tag = "SuitCard" /\ card.rank = "Joker") =>
              rk = rank(JokerCard("Black"))

RankOfAceOfSpadesTaken ==
    /\ rk = "Ace"
    /\ card = SuitCard("Spades", "Ace")
    /\ RankLt(rk, rank(JokerCard("Black")))

\* C4: draw() on an empty deck returns None and leaves the deck empty;
\* draw() on a non-empty deck returns the last card of the current order
\* and leaves the deck with the cards before it, in their order.
DrawTakesTheTop ==
    op = "draw" =>
        IF prev = <<>>
        THEN ret = None /\ cards = <<>>
        ELSE /\ ret = Some(prev[Len(prev)])
             /\ cards = SubSeq(prev, 1, Len(prev) - 1)

DrawnFromEmpty ==
    /\ op = "draw"
    /\ prev = <<>>
    /\ ret = None
    /\ cards = <<>>

\* C5: when draw() returns a card and put() of that card follows at once,
\* the deck holds the cards it held before the draw, in the same order.
DrawThenPutRestores ==
    (op = "put" /\ lastDraw.ret # None /\ arg = lastDraw.ret) =>
        cards = lastDraw.before

DrawnCardPutBack ==
    /\ op = "put"
    /\ lastDraw.ret # None
    /\ arg = lastDraw.ret
    /\ Len(cards) >= 2
    /\ cards[1] # cards[Len(cards)]

\* C6: after A.append(B), A is its prior sequence followed by B's prior
\* sequence in B's order, so B's last card is the top of A and the length
\* of A is the sum of the two prior lengths; B holds no cards.
AppendConcatenates ==
    op = "append" =>
        /\ cards = prev \o prevOther
        /\ Len(cards) = Len(prev) + Len(prevOther)
        /\ BagOf(cards) = BagOf(prev \o prevOther)
        /\ (prevOther # <<>> => cards[Len(cards)] = prevOther[Len(prevOther)])
        /\ other = <<>>

TwoCardsAppended ==
    /\ op = "append"
    /\ Len(prev) >= 1
    /\ Len(prevOther) = 2
    /\ prevOther[1] # prevOther[2]
    /\ other = <<>>

\* C7: shuffle() leaves every card in the deck as many times as before,
\* whichever indices the random source picks, and every rearrangement of
\* the deck is among the outcomes the random source can pick.
ShufflePermutes ==
    op = "shuffle" =>
        /\ BagOf(cards) = BagOf(prev)
        /\ Len(cards) = Len(prev)
        /\ cards \in Perms(prev)
        /\ ShuffleOutcomes(prev) = Perms(prev)

ThreeCardsShuffled ==
    /\ op = "shuffle"
    /\ Len(prev) = 3
    /\ Cardinality(Range(prev)) = 3
    /\ cards = VecReverse(prev)

\* C8: in both modes the iterator yields no card twice and no more than 52
\* (standard) or 54 (full) cards; the call after the last card returns
\* None, and a call made after None has been returned returns None again
\* and leaves the iterator's rank and suit as they were.
IterEndsAndStaysEnded ==
    /\ [](/\ Len(yielded) <= (IF it.jokers THEN 54 ELSE 52)
          /\ Cardinality(Range(yielded)) = Len(yielded)
          /\ (nones > 0 => Len(yielded) = (IF it.jokers THEN 54 ELSE 52)))
    /\ [][(nones > 0 /\ nones' > 0) =>
             (it' = it /\ yielded' = yielded /\ nones' >= nones)]_vars

FullIterAskedAgain ==
    /\ it.jokers
    /\ nones = MaxNones
    /\ Len(yielded) = 54

\* C9, as claimed: SuitCard(suit, rank) with a rank in Two..Ace renders as
\* the rank glyph then the suit glyph, the ranks Two..Ten as their decimal
\* value "2".."10" and Jack, Queen, King, Ace as "J", "Q", "K", "A"; so the
\* ace of spades renders as "AS" and the ten of hearts as "10H".
SuitCardRendersDecimalRank ==
    (shown # <<>> /\ card.tag = "SuitCard" /\ card.rank # "Joker") =>
        /\ shown = DecimalRankGlyph(card.rank) \o <<SuitGlyph(card.suit)>>
        /\ card = SuitCard("Spades", "Ace") => shown = <<"A", "S">>
        /\ card = SuitCard("Hearts", "Ten") => shown = <<"1", "0", "H">>

\* C9, amended: SuitCard(suit, rank) with a rank in Two..Ace renders as the
\* rank glyph then the suit glyph, the ranks Two..Nine as their decimal
\* value "2".."9", Ten as "T" and Jack, Queen, King, Ace as "J", "Q", "K",
\* "A"; so the ace of spades renders as "AS" and the ten of hearts as "TH".
SuitCardRendersLetterTen ==
    (shown # <<>> /\ card.tag = "SuitCard" /\ card.rank # "Joker") =>
        /\ shown = LetterTenRankGlyph(card.rank) \o <<SuitGlyph(card.suit)>>
        /\ card = SuitCard("Spades", "Ace") => shown = <<"A", "S">>
        /\ card = SuitCard("Hearts", "Ten") => shown = <<"T", "H">>

TenOfHeartsRendered ==
    /\ card = SuitCard("Hearts", "Ten")
    /\ shown # <<>>
    /\ Len(shown) = 2

\* C10: JokerCard(color) renders as the glyph of that color, 'B' for Black
\* and 'R' for Red, then the joker marker '?'.
JokerRendersItsOwnColor ==
    (shown # <<>> /\ card.tag = "JokerCard") =>
        shown = <<ColorGlyph(card.color), "?">>

====
